---- MODULE Spec2Model ----
(***************************************************************************)
(* A model of pygn_server.py: the request loop (listen), the request       *)
(* grammar, the option parser, the four command callbacks and the engine   *)
(* pool (ENGINES, instantiate_engine, cleanup).                            *)
(*                                                                         *)
(* A line of input is a sequence of symbols.  A symbol is one of the       *)
(* characters colon, dash, single quote, space, newline, or a word: a      *)
(* non-empty run of non-whitespace characters that holds no colon and no   *)
(* quote and neither starts nor ends with a dash (pgn-to-fen, 200, e4).    *)
(* The regular expression, shlex and argparse are modelled on these        *)
(* symbols.                                                                *)
(***************************************************************************)
EXTENDS Integers, Sequences, FiniteSets, TLC

VARIABLES
    pc,         \* "listen" | "exiting" | "terminated": where the process is
    nRead,      \* number of non-empty reads of sys.stdin.readline() so far
    input_str,  \* the line returned by the last readline()
    stdout,     \* what was printed to sys.stdout, in order
    stderr,     \* what was printed to sys.stderr, in order
    ENGINES,    \* the pool: engine path -> handle
    alive,      \* handle -> whether its subprocess still answers
    quits,      \* handle -> number of quit() calls made on it
    calls,      \* the engine calls made by the last step, in order
    outcome     \* how the last step ended

vars == <<pc, nRead, input_str, stdout, stderr, ENGINES, alive, quits, calls, outcome>>

----------------------------------------------------------------------------
(* Bounds *)

MaxLines == 2

----------------------------------------------------------------------------
(* Helpers *)

Max(S) == CHOOSE x \in S : \A y \in S : y <= x

Min(S) == CHOOSE x \in S : \A y \in S : x <= y

Last(s) == s[Len(s)]

\* the concatenation of a sequence of symbols into one string
RECURSIVE Flatten(_)
Flatten(tok) == IF tok = <<>> THEN "" ELSE Head(tok) \o Flatten(Tail(tok))

----------------------------------------------------------------------------
(* The request grammar of listen: a command token, a non-greedy option     *)
(* string, the separator, a payload-type token, the payload and a newline, *)
(* searched for anywhere in the line.                                      *)

IsSpace(c) == c \in {" ", "\n"}

IsNonSpace(c) == ~IsSpace(c)

IsDot(c) == c # "\n"

NoMatch == [matched |-> FALSE]

\* the payload and the newline, from position f: the positions of the newline
PayloadEnds(l, f) ==
    IF f <= Len(l) /\ IsNonSpace(l[f])
    THEN {g \in (f + 1)..Len(l) : l[g] = "\n" /\ \A i \in (f + 1)..(g - 1) : IsDot(l[i])}
    ELSE {}

\* whitespace before the payload, from position e: the positions where the payload starts
Ws3Ends(l, e) ==
    {f \in (e + 1)..Len(l) : (\A i \in e..(f - 1) : IsSpace(l[i])) /\ PayloadEnds(l, f) # {}}

\* the payload type, from position d: the positions just after it
TypeEnds(l, d) ==
    IF d <= Len(l) /\ l[d] = ":"
    THEN {e \in (d + 2)..Len(l) : (\A i \in (d + 1)..(e - 1) : IsNonSpace(l[i]))
                                   /\ Ws3Ends(l, e) # {}}
    ELSE {}

\* whitespace after the two dashes, from position c2: the positions where the payload type starts
Ws2Ends(l, c2) ==
    {d \in (c2 + 1)..Len(l) : (\A i \in c2..(d - 1) : IsSpace(l[i])) /\ TypeEnds(l, d) # {}}

\* whitespace and two dashes from position b: the positions of the first dash
Ws1Ends(l, b) ==
    {c \in (b + 1)..(Len(l) - 1) : (\A i \in b..(c - 1) : IsSpace(l[i]))
                                    /\ l[c] = "-" /\ l[c + 1] = "-"
                                    /\ Ws2Ends(l, c + 2) # {}}

\* the option string, from position a: the positions just after it
OptEnds(l, a) ==
    {b \in a..Len(l) : (\A i \in a..(b - 1) : IsDot(l[i])) /\ Ws1Ends(l, b) # {}}

\* the command, from position s: the positions just after it
CmdEnds(l, s) ==
    IF l[s] = ":"
    THEN {a \in (s + 2)..Len(l) : (\A i \in (s + 1)..(a - 1) : IsNonSpace(l[i]))
                                   /\ OptEnds(l, a) # {}}
    ELSE {}

\* re.search: the leftmost start; greedy parts take the longest that lets the
\* rest match, the non-greedy option string the shortest
re_search(l) ==
    LET starts == {s \in 1..Len(l) : CmdEnds(l, s) # {}} IN
    IF starts = {} THEN NoMatch
    ELSE LET s == Min(starts)
             a == Max(CmdEnds(l, s))
             b == Min(OptEnds(l, a))
             c == Max(Ws1Ends(l, b))
             d == Max(Ws2Ends(l, c + 2))
             e == Max(TypeEnds(l, d))
             f == Max(Ws3Ends(l, e))
             g == Max(PayloadEnds(l, f))
         IN  [matched |-> TRUE,
              start   |-> s,
              group1  |-> SubSeq(l, s, a - 1),
              group2  |-> SubSeq(l, a, b - 1),
              group3  |-> SubSeq(l, d, e - 1),
              group4  |-> SubSeq(l, f, g - 1)]

----------------------------------------------------------------------------
(* shlex.split: words separated by whitespace; a single quote opens a      *)
(* stretch taken literally up to the next single quote; an unclosed quote  *)
(* raises ValueError.                                                      *)

RECURSIVE shlex_scan(_, _, _, _, _, _)
shlex_scan(s, i, toks, cur, inTok, inQuote) ==
    IF i > Len(s)
    THEN IF inQuote THEN [ok |-> FALSE, tokens |-> <<>>]
         ELSE [ok |-> TRUE, tokens |-> IF inTok THEN Append(toks, cur) ELSE toks]
    ELSE LET c == s[i] IN
         IF inQuote
         THEN IF c = "'" THEN shlex_scan(s, i + 1, toks, cur, TRUE, FALSE)
              ELSE shlex_scan(s, i + 1, toks, Append(cur, c), TRUE, TRUE)
         ELSE IF c = "'" THEN shlex_scan(s, i + 1, toks, cur, TRUE, TRUE)
         ELSE IF IsSpace(c)
              THEN shlex_scan(s, i + 1, IF inTok THEN Append(toks, cur) ELSE toks,
                              <<>>, FALSE, FALSE)
              ELSE shlex_scan(s, i + 1, toks, Append(cur, c), TRUE, FALSE)

shlex_split(s) == shlex_scan(s, 1, <<>>, <<>>, FALSE, FALSE)

----------------------------------------------------------------------------
(* generate_argparser and argparse's parse_args on the tokens shlex made.  *)
(* The four flags take one value each and have a one-dash and a two-dash   *)
(* form; ArgumentParser() adds -h and --help by itself.  The flag words of *)
(* the input alphabet are full names or a word that abbreviates no flag.   *)

DefaultPixels == 400

DefaultDepth == 20

Defaults ==
    [pixels |-> DefaultPixels, board_format |-> "svg",
     engine |-> "stockfish", depth |-> DefaultDepth]

NumWords == {"200", "5"}

IntOf(w) == IF w = "200" THEN 200 ELSE 5

\* the destination of a flag, or none for a string that is no flag of the parser
OptionDest(tok) ==
    IF tok \in {<<"-", "pixels">>, <<"-", "-", "pixels">>} THEN "pixels"
    ELSE IF tok \in {<<"-", "board_format">>, <<"-", "-", "board_format">>} THEN "board_format"
    ELSE IF tok \in {<<"-", "engine">>, <<"-", "-", "engine">>} THEN "engine"
    ELSE IF tok \in {<<"-", "depth">>, <<"-", "-", "depth">>} THEN "depth"
    ELSE IF tok \in {<<"-", "h">>, <<"-", "-", "help">>} THEN "help"
    ELSE "none"

IsNegNumber(tok) == Len(tok) = 2 /\ tok[1] = "-" /\ tok[2] \in NumWords

\* type=int
IsInt(tok) == (Len(tok) = 1 /\ tok[1] \in NumWords) \/ IsNegNumber(tok)

IntValue(tok) == IF Len(tok) = 1 THEN IntOf(tok[1]) ELSE 0 - IntOf(tok[2])

\* argparse takes a string for an option when it starts with a dash and is a
\* flag, or is longer than the dash, no negative number and holds no space
LooksOptional(tok) ==
    /\ tok # <<>>
    /\ tok[1] = "-"
    /\ \/ OptionDest(tok) # "none"
       \/ Len(tok) > 1 /\ ~IsNegNumber(tok) /\ ~(\E i \in 1..Len(tok) : tok[i] = " ")

DoubleDash == <<"-", "-">>

\* status ok: the namespace; help: the help text went to sys.stdout and
\* SystemExit(0) was raised; error: usage went to sys.stderr and SystemExit(2)
\* was raised.  Strings that no action takes are reported when all are read.
RECURSIVE parse_scan(_, _, _, _, _)
parse_scan(toks, i, args, extras, plain) ==
    IF i > Len(toks)
    THEN [status |-> IF extras THEN "error" ELSE "ok", args |-> args]
    ELSE LET t == toks[i] IN
         IF ~plain /\ t = DoubleDash
         THEN parse_scan(toks, i + 1, args, extras, TRUE)
         ELSE IF plain \/ ~LooksOptional(t)
         THEN parse_scan(toks, i + 1, args, TRUE, plain)
         ELSE LET dest == OptionDest(t) IN
              IF dest = "none" THEN parse_scan(toks, i + 1, args, TRUE, plain)
              ELSE IF dest = "help" THEN [status |-> "help", args |-> args]
              ELSE IF i + 1 > Len(toks) \/ toks[i + 1] = DoubleDash \/ LooksOptional(toks[i + 1])
                   THEN [status |-> "error", args |-> args]
              ELSE LET v == toks[i + 1] IN
                   IF dest \in {"pixels", "depth"}
                   THEN IF IsInt(v)
                        THEN parse_scan(toks, i + 2, [args EXCEPT ![dest] = IntValue(v)],
                                        extras, plain)
                        ELSE [status |-> "error", args |-> args]
                   ELSE parse_scan(toks, i + 2, [args EXCEPT ![dest] = Flatten(v)],
                                   extras, plain)

parse_args(toks) == parse_scan(toks, 1, Defaults, FALSE, FALSE)

----------------------------------------------------------------------------
(* The game and the board of a request: listen unescapes the payload,      *)
(* reads the game and pushes the moves of the main line on its board.      *)

MoveWords == {"e4", "e5"}

\* re.sub of backslash-n by a newline
Unescape(pgn) == [i \in 1..Len(pgn) |-> IF pgn[i] = "\\n" THEN "\n" ELSE pgn[i]]

\* the whitespace-separated tokens of the text
RECURSIVE Tokens(_, _, _, _)
Tokens(s, i, toks, cur) ==
    IF i > Len(s) THEN IF cur = <<>> THEN toks ELSE Append(toks, cur)
    ELSE IF IsSpace(s[i])
         THEN Tokens(s, i + 1, IF cur = <<>> THEN toks ELSE Append(toks, cur), <<>>)
         ELSE Tokens(s, i + 1, toks, Append(cur, s[i]))

IsMove(tok) == Len(tok) = 1 /\ tok[1] \in MoveWords

\* chess.pgn.read_game and game.mainline_moves(): the moves of the text, in order
mainline_moves(pgn) ==
    LET toks  == Tokens(pgn \o <<"\n", "\n">>, 1, <<>>, <<>>)
        moves == SelectSeq(toks, IsMove)
    IN  [i \in 1..Len(moves) |-> moves[i][1]]

RECURSIVE push_all(_, _, _)
push_all(board, last_move, moves) ==
    IF moves = <<>> THEN [board |-> board, last_move |-> last_move]
    ELSE push_all(Append(board, Head(moves)), Head(moves), Tail(moves))

\* a build that stops after the first move of the main line
build_board_first_move_only(payload) ==
    LET moves == mainline_moves(Unescape(payload)) IN
    push_all(<<>>, "False", IF moves = <<>> THEN moves ELSE <<Head(moves)>>)

\* the board after the main line and the last move pushed, False when there is none
build_board(payload) == push_all(<<>>, "False", mainline_moves(Unescape(payload)))

----------------------------------------------------------------------------
(* The state the handlers work on, as one record, and what they print.     *)

State ==
    [pc |-> pc, nRead |-> nRead, input_str |-> input_str, stdout |-> stdout,
     stderr |-> stderr, ENGINES |-> ENGINES, alive |-> alive, quits |-> quits,
     calls |-> calls, outcome |-> outcome]

Reply(prefix, board, last_move, size, engine, depth) ==
    [prefix |-> prefix, board |-> board, last_move |-> last_move, size |-> size,
     engine |-> engine, depth |-> depth]

\* a print that puts the entry before what was written earlier
print_stdout_first(st, text) ==
    [st EXCEPT !.stdout = <<[req |-> st.nRead, text |-> text]>> \o @]

\* print(x): one more entry on sys.stdout, written while request st.nRead is handled
print_stdout(st, text) ==
    [st EXCEPT !.stdout = Append(@, [req |-> st.nRead, text |-> text])]

\* print(x, file=sys.stderr)
print_stderr(st, kind, text) ==
    [st EXCEPT !.stderr = Append(@, [req |-> st.nRead, kind |-> kind, text |-> text])]

----------------------------------------------------------------------------
(* The engine pool.  ENGINES is a dict: its entries in insertion order.    *)

Has(E, path) == \E i \in 1..Len(E) : E[i].path = path

Get(E, path) == E[CHOOSE i \in 1..Len(E) : E[i].path = path].handle

\* a store that adds an entry whether or not the path has one
Set_appends(E, path, h) == Append(E, [path |-> path, handle |-> h])

\* E[path] = h: replaces the entry of the path in place, or adds one at the end
Set(E, path, h) ==
    IF Has(E, path)
    THEN [i \in 1..Len(E) |-> IF E[i].path = path THEN [path |-> path, handle |-> h] ELSE E[i]]
    ELSE Append(E, [path |-> path, handle |-> h])

Call(op, h, ok) == [op |-> op, h |-> h, ok |-> ok]

\* ENGINES[engine_path] = SimpleEngine.popen_uci(engine_path): a new handle, or
\* the exception of a spawn that fails
popen_uci(st, engine_path, ok) ==
    IF ok
    THEN LET h == Len(st.alive) + 1 IN
         [st EXCEPT !.ENGINES = Set(@, engine_path, h),
                    !.alive = Append(@, TRUE),
                    !.quits = Append(@, 0),
                    !.calls = Append(@, Call("popen_uci", h, TRUE))]
    ELSE [st EXCEPT !.calls = Append(@, Call("popen_uci", 0, FALSE)),
                    !.outcome = "raised"]

\* an instantiate_engine that spawns a subprocess on every call
instantiate_engine_always_spawns(st, engine_path, ch) ==
    LET s1 == popen_uci(st, engine_path, ch.spawn1) IN
    IF s1.outcome = "raised" THEN s1
    ELSE LET h == Get(s1.ENGINES, engine_path) IN
         [s1 EXCEPT !.calls = Append(@, Call("ping", h, TRUE))]

\* an instantiate_engine that spawns the replacement of a dead handle and
\* leaves the dead handle in the pool
instantiate_engine_keeps_dead(st, engine_path, ch) ==
    LET fresh == ~Has(st.ENGINES, engine_path)
        s1 == IF fresh THEN popen_uci(st, engine_path, ch.spawn1) ELSE st
    IN  IF s1.outcome = "raised" THEN s1
        ELSE LET h  == Get(s1.ENGINES, engine_path)
                 s2 == IF fresh /\ ch.die1 THEN [s1 EXCEPT !.alive[h] = FALSE] ELSE s1
                 ok == s2.alive[h]
                 s3 == [s2 EXCEPT !.calls = Append(@, Call("ping", h, ok))]
             IN  IF ok THEN s3
                 ELSE [popen_uci(s3, engine_path, ch.spawn2) EXCEPT !.ENGINES = s3.ENGINES]

\* an instantiate_engine that probes the replacement as well
instantiate_engine_probes_again(st, engine_path, ch) ==
    LET fresh == ~Has(st.ENGINES, engine_path)
        s1 == IF fresh THEN popen_uci(st, engine_path, ch.spawn1) ELSE st
    IN  IF s1.outcome = "raised" THEN s1
        ELSE LET h  == Get(s1.ENGINES, engine_path)
                 ok == s1.alive[h] /\ ~(fresh /\ ch.die1)
                 s3 == [s1 EXCEPT !.alive[h] = ok, !.calls = Append(@, Call("ping", h, ok))]
                 s4 == popen_uci(s3, engine_path, ch.spawn2)
             IN  IF ok THEN s3
                 ELSE IF s4.outcome = "raised" THEN s4
                 ELSE [s4 EXCEPT !.calls = Append(@, Call("ping", Get(s4.ENGINES, engine_path), TRUE))]

\* the engine spawned last stops answering right after its spawn, when die says so
dies_after_spawn(st, engine_path, die) ==
    IF st.outcome # "raised" /\ die
    THEN [st EXCEPT !.alive[Get(st.ENGINES, engine_path)] = FALSE]
    ELSE st

\* ch.spawn1, ch.spawn2: whether the spawns succeed; ch.die1: whether the engine
\* just spawned dies before it is probed; ch.die2: whether the replacement dies
\* before it is returned
instantiate_engine(st, engine_path, ch) ==
    LET fresh == ~Has(st.ENGINES, engine_path)
        s1 == IF fresh THEN popen_uci(st, engine_path, ch.spawn1) ELSE st
    IN  IF s1.outcome = "raised" THEN s1
        ELSE LET h  == Get(s1.ENGINES, engine_path)
                 s2 == IF fresh THEN dies_after_spawn(s1, engine_path, ch.die1) ELSE s1
                 ok == s2.alive[h]
                 s3 == [s2 EXCEPT !.calls = Append(@, Call("ping", h, ok))]
             IN  IF ok THEN s3
                 ELSE dies_after_spawn(popen_uci(s3, engine_path, ch.spawn2), engine_path, ch.die2)

\* a loop over the pool that the first exception of quit ends
RECURSIVE quit_all_stops(_, _)
quit_all_stops(st, i) ==
    IF i > Len(st.ENGINES) THEN st
    ELSE LET h == st.ENGINES[i].handle
             s1 == [st EXCEPT !.quits[h] = @ + 1,
                              !.alive[h] = FALSE,
                              !.calls = Append(@, Call("quit", h, st.alive[h]))]
         IN  IF st.alive[h] THEN quit_all_stops(s1, i + 1) ELSE s1

\* e.quit() for the handles in the pool; an exception of quit is passed over
RECURSIVE quit_all(_, _)
quit_all(st, i) ==
    IF i > Len(st.ENGINES) THEN st
    ELSE LET h == st.ENGINES[i].handle IN
         quit_all([st EXCEPT !.quits[h] = @ + 1,
                             !.alive[h] = FALSE,
                             !.calls = Append(@, Call("quit", h, st.alive[h]))],
                  i + 1)

\* a cleanup that quits nothing
cleanup_skipped(st) == st

cleanup(st) == quit_all(st, 1)

----------------------------------------------------------------------------
(* The callbacks: each returns the state it leaves and the value returned. *)

None == Reply("None", <<>>, "", 0, "", 0)

Return(st, value) == [st |-> st, value |-> value]

\* a pgn_to_board_callback whose size is the one of the reply written before it,
\* when there is one: an option that outlives its request
pgn_to_board_callback_sticky(st, board, last_move, args, ch) ==
    LET size == IF st.stdout # <<>> /\ Last(st.stdout).text.size > 0
                THEN Last(st.stdout).text.size ELSE args.pixels
    IN  IF args.board_format = "svg"
        THEN Return(st, Reply(":board-svg ", board, last_move, size, "", 0))
        ELSE IF args.board_format = "text"
        THEN Return(st, Reply(":board-text ", board, "", 0, "", 0))
        ELSE Return(print_stderr(st, "bad_board_format", args.board_format), None)

pgn_to_board_callback(st, board, last_move, args, ch) ==
    IF args.board_format = "svg"
    THEN Return(st, Reply(":board-svg ", board, last_move, args.pixels, "", 0))
    ELSE IF args.board_format = "text"
    THEN Return(st, Reply(":board-text ", board, "", 0, "", 0))
    ELSE Return(print_stderr(st, "bad_board_format", args.board_format), None)

\* a pgn_to_fen_callback that gets itself the engine its options name
pgn_to_fen_callback_spawns(st, board, last_move, args, ch) ==
    Return(instantiate_engine(st, args.engine, ch), Reply(":fen ", board, "", 0, "", 0))

pgn_to_fen_callback(st, board, last_move, args, ch) ==
    Return(st, Reply(":fen ", board, "", 0, "", 0))

\* ch.analyse: whether engine.analyse returns on an engine that answers; on one
\* that does not answer it raises; when it raises, so does the callback
pgn_to_score_callback(st, board, last_move, args, ch) ==
    LET s1 == instantiate_engine(st, args.engine, ch) IN
    IF s1.outcome = "raised" THEN Return(s1, None)
    ELSE LET engine == Get(s1.ENGINES, args.engine)
             ok == ch.analyse /\ s1.alive[engine]
             s2 == [s1 EXCEPT !.calls = Append(@, Call("analyse", engine, ok))]
         IN  IF ok
             THEN Return(s2, Reply(":score ", board, "", 0, args.engine, args.depth))
             ELSE Return([s2 EXCEPT !.outcome = "raised"], None)

pgn_to_mainline_callback(st, board, last_move, args, ch) ==
    Return(st, Reply(":san ", board, "", 0, "", 0))

CommandNames == {":pgn-to-fen", ":pgn-to-board", ":pgn-to-score", ":pgn-to-mainline"}

CALLBACKS(command, st, board, last_move, args, ch) ==
    CASE command = ":pgn-to-fen" -> pgn_to_fen_callback(st, board, last_move, args, ch)
      [] command = ":pgn-to-board" -> pgn_to_board_callback(st, board, last_move, args, ch)
      [] command = ":pgn-to-score" -> pgn_to_score_callback(st, board, last_move, args, ch)
      [] command = ":pgn-to-mainline" -> pgn_to_mainline_callback(st, board, last_move, args, ch)

----------------------------------------------------------------------------
(* listen: one turn of the loop on the line read.                          *)

IsEof(line) == Len(line) = 0

\* a loop without the test for the empty line
IsEmptyLine_never(line) == FALSE

IsEmptyLine(line) == line = <<"\n">>

Ended(st, how) == [st EXCEPT !.outcome = how]

\* the options of the request: shlex.split, then parse_args; any exception is
\* caught.  status ok, help (the help text was printed and SystemExit raised),
\* usage (the usage text was printed and SystemExit raised) or error
request_options(option_string) ==
    LET sp == shlex_split(option_string) IN
    IF ~sp.ok THEN [status |-> "error", args |-> Defaults]
    ELSE LET pa == parse_args(sp.tokens) IN
         [status |-> IF pa.status = "error" THEN "usage" ELSE pa.status, args |-> pa.args]

\* checks in another order: the payload type is looked at before the options
parse_request_type_first(line) ==
    LET m == re_search(line)
        none == [verdict |-> "bad_input", lead |-> 0, command |-> "", option_string |-> "",
                 options |-> "", args |-> Defaults, payload_type |-> "", payload |-> <<>>]
    IN  IF ~m.matched THEN none
        ELSE LET command == Flatten(m.group1)
                 found == [none EXCEPT !.lead = m.start - 1, !.command = command]
             IN  IF command \notin CommandNames THEN [found EXCEPT !.verdict = "bad_command"]
                 ELSE LET payload_type == Flatten(m.group3)
                          typed == [found EXCEPT !.payload_type = payload_type]
                      IN  IF payload_type # ":pgn"
                          THEN [typed EXCEPT !.verdict = "bad_payload_type"]
                          ELSE LET o == request_options(m.group2)
                                   opted == [typed EXCEPT !.option_string = Flatten(m.group2),
                                                          !.options = o.status, !.args = o.args]
                               IN  IF o.status # "ok" THEN [opted EXCEPT !.verdict = "bad_options"]
                                   ELSE [opted EXCEPT !.verdict = "ok", !.payload = m.group4]

\* the checks of the line, in the order listen makes them: what the line is
\* found to be, and the parts of it the later steps use
parse_request(line) ==
    LET m == re_search(line)
        none == [verdict |-> "bad_input", lead |-> 0, command |-> "", option_string |-> "",
                 options |-> "", args |-> Defaults, payload_type |-> "", payload |-> <<>>]
    IN  IF ~m.matched THEN none
        ELSE LET command == Flatten(m.group1)
                 found == [none EXCEPT !.lead = m.start - 1, !.command = command]
             IN  IF command \notin CommandNames THEN [found EXCEPT !.verdict = "bad_command"]
                 ELSE LET o == request_options(m.group2)
                          opted == [found EXCEPT !.option_string = Flatten(m.group2),
                                                 !.options = o.status, !.args = o.args]
                      IN  IF o.status # "ok" THEN [opted EXCEPT !.verdict = "bad_options"]
                          ELSE LET payload_type == Flatten(m.group3)
                                   typed == [opted EXCEPT !.payload_type = payload_type]
                               IN  IF payload_type # ":pgn"
                                   THEN [typed EXCEPT !.verdict = "bad_payload_type"]
                                   ELSE [typed EXCEPT !.verdict = "ok", !.payload = m.group4]

\* a respond that catches what the callback raises and goes on with the loop
respond_recovers(st, command, args, payload, ch) ==
    LET b == build_board(payload)
        r == CALLBACKS(command, st, b.board, b.last_move, args, ch)
    IN  IF r.st.outcome = "raised" THEN r.st
        ELSE Ended(print_stdout(r.st, r.value), "replied")

\* the build of the board and the call of the callback; the value returned is printed
respond(st, command, args, payload, ch) ==
    LET b == build_board(payload)
        r == CALLBACKS(command, st, b.board, b.last_move, args, ch)
    IN  IF r.st.outcome = "raised" THEN [r.st EXCEPT !.pc = "exiting"]
        ELSE Ended(print_stdout(r.st, r.value), "replied")

\* one turn of the loop on the line read, rq the checks of that line
listen_step(st, line, rq, ch) ==
    IF IsEof(line) THEN [cleanup(st) EXCEPT !.pc = "exiting", !.outcome = "eof"]
    ELSE IF IsEmptyLine(line) THEN Ended(st, "empty")
    ELSE IF rq.verdict = "bad_input"
         THEN Ended(print_stderr(st, "bad_input", Flatten(line)), "bad_input")
    ELSE IF rq.verdict = "bad_command"
         THEN Ended(print_stderr(st, "bad_command", rq.command), "bad_command")
    ELSE IF rq.verdict = "bad_options"
         THEN LET s1 == IF rq.options = "help"
                        THEN print_stdout(st, Reply("usage: ", <<>>, "", 0, "", 0))
                        ELSE IF rq.options = "usage"
                        THEN print_stderr(st, "argparse_usage", "")
                        ELSE st
              IN  Ended(print_stderr(s1, "bad_options", rq.option_string), "bad_options")
    ELSE IF rq.verdict = "bad_payload_type"
         THEN Ended(print_stderr(st, "bad_payload_type", rq.payload_type), "bad_payload_type")
    ELSE respond(st, rq.command, rq.args, rq.payload, ch)

----------------------------------------------------------------------------
(* The lines the client may send.                                          *)

Separator == <<" ", "-", "-", " ">>

PgnType == <<":", "pgn">>

Newline == <<"\n">>

OneMove == <<" ", "1.", " ", "e4">>

NoMoves == <<" ", "*">>

TwoMoves == <<" ", "1.", " ", "e4", "\\n", "e5">>

Fen == <<":", "pgn-to-fen">>

Board == <<":", "pgn-to-board">>

Score == <<":", "pgn-to-score">>

Mainline == <<":", "pgn-to-mainline">>

Bogus == <<":", "bogus">>

NoOptions == <<>>

Engine2 == <<" ", "-", "engine", " ", "sf2">>

Zap == <<" ", "-", "zap">>

BadOptions ==
    {Zap,
     <<" ", "-", "depth", " ", "x">>,
     <<" ", "-", "pixels">>,
     <<" ", "-", "h">>,
     <<" ", "'", "x">>,
     <<" ", "x">>}

Line(pre, cmd, opt, sep, type, pay, nl) == pre \o cmd \o opt \o sep \o type \o pay \o nl

Request(cmd, opt, pay) == Line(<<>>, cmd, opt, Separator, PgnType, pay, Newline)

Lines ==
    \* requests whose options parse
    {Request(c, o, OneMove) : c \in {Fen, Board, Score, Mainline}, o \in {NoOptions, Engine2}}
    \cup {Request(Board, o, OneMove) : o \in {<<" ", "-", "board_format", " ", "text">>,
                                             <<" ", "-", "board_format", " ", "foo">>,
                                             <<" ", "-", "-", "pixels", " ", "200">>}}
    \cup {Request(Score, <<" ", "-", "depth", " ", "5">>, OneMove)}
    \* option strings that do not parse
    \cup {Request(Fen, o, OneMove) : o \in BadOptions}
    \* other games
    \cup {Request(c, NoOptions, p) : c \in {Fen, Board}, p \in {NoMoves, TwoMoves}}
    \* an unknown command, a command with no colon
    \cup {Request(Bogus, o, OneMove) : o \in {NoOptions, Zap}}
    \cup {Request(<<"pgn-to-fen">>, NoOptions, OneMove)}
    \* text before the command
    \cup {Line(<<"junk", " ">>, c, NoOptions, Separator, PgnType, OneMove, Newline) :
            c \in {Fen, Bogus}}
    \cup {Line(<<"x">>, Fen, NoOptions, Separator, PgnType, OneMove, Newline)}
    \* a broken separator, payload type, payload or line end
    \cup {Line(<<>>, Fen, NoOptions, sep, PgnType, OneMove, Newline) :
            sep \in {<<" ", "-", " ">>, <<" ", "-", "-">>}}
    \cup {Line(<<>>, Fen, NoOptions, Separator, type, OneMove, Newline) :
            type \in {<<":", "fen">>, <<"pgn">>}}
    \cup {Line(<<>>, c, Zap, Separator, <<":", "fen">>, OneMove, Newline) : c \in {Fen, Bogus}}
    \cup {Line(<<>>, Fen, NoOptions, Separator, PgnType, <<>>, Newline),
          Line(<<>>, Fen, NoOptions, Separator, PgnType, OneMove, <<>>)}
    \* the empty line
    \cup {Newline}

EndOfInput == <<>>

Choices ==
    [spawn1 : BOOLEAN, die1 : BOOLEAN, spawn2 : BOOLEAN, die2 : BOOLEAN, analyse : BOOLEAN]

----------------------------------------------------------------------------
(* The process.                                                            *)

Init ==
    /\ pc = "listen"
    /\ nRead = 0
    /\ input_str = <<>>
    /\ stdout = <<>>
    /\ stderr = <<>>
    /\ ENGINES = <<>>
    /\ alive = <<>>
    /\ quits = <<>>
    /\ calls = <<>>
    /\ outcome = "started"

Becomes(st) ==
    /\ pc' = st.pc
    /\ nRead' = st.nRead
    /\ input_str' = st.input_str
    /\ stdout' = st.stdout
    /\ stderr' = st.stderr
    /\ ENGINES' = st.ENGINES
    /\ alive' = st.alive
    /\ quits' = st.quits
    /\ calls' = st.calls
    /\ outcome' = st.outcome

\* the lines with the checks listen makes of each
Requests == {[line |-> l, rq |-> parse_request(l)] : l \in Lines \cup {EndOfInput}}

NoFailure ==
    [spawn1 |-> TRUE, die1 |-> FALSE, spawn2 |-> TRUE, die2 |-> FALSE, analyse |-> TRUE]

\* the outcomes of the engine calls, for the requests that make any
ChoicesOf(rq) ==
    IF rq.verdict = "ok" /\ rq.command = ":pgn-to-score" THEN Choices ELSE {NoFailure}

\* input_str = sys.stdin.readline() and the turn of the loop on it
Listen ==
    /\ pc = "listen"
    /\ \E r \in Requests :
          /\ nRead < MaxLines \/ IsEof(r.line)
          /\ \E ch \in ChoicesOf(r.rq) :
                Becomes(listen_step([State EXCEPT !.nRead = IF IsEof(r.line) THEN @ ELSE @ + 1,
                                                  !.input_str = r.line,
                                                  !.calls = <<>>,
                                                  !.outcome = "reading"],
                                    r.line, r.rq, ch))

\* the hook of atexit.register(cleanup), run when the interpreter exits
AtExit ==
    /\ pc = "exiting"
    /\ Becomes([cleanup([State EXCEPT !.calls = <<>>]) EXCEPT !.pc = "terminated"])

\* an engine subprocess stops answering
EngineDies ==
    /\ pc = "listen"
    /\ \E h \in 1..Len(alive) :
          /\ alive[h]
          /\ alive' = [alive EXCEPT ![h] = FALSE]
          /\ UNCHANGED <<pc, nRead, input_str, stdout, stderr, ENGINES, quits, calls, outcome>>

Next == Listen \/ AtExit \/ EngineDies

Spec == Init /\ [][Next]_vars

\* the interpreter runs the exit hook once the main module has ended
FairSpec == Spec /\ WF_vars(AtExit)

----------------------------------------------------------------------------
(* What the claims speak of.                                               *)

\* the checks listen makes of a line
RequestOf(line) == (CHOOSE r \in Requests : r.line = line).rq

\* what was written to sys.stdout and to sys.stderr while request n was handled
RepliesTo(n) == SelectSeq(stdout, LAMBDA e : e.req = n)

DiagnosticsOf(n) == SelectSeq(stderr, LAMBDA e : e.req = n)

\* input_str is a line that listen checks: neither the end of input nor the
\* empty line
LineRead == input_str \notin {EndOfInput, Newline}

ReplyPrefixes(command) ==
    CASE command = ":pgn-to-fen" -> {":fen "}
      [] command = ":pgn-to-board" -> {":board-svg ", ":board-text "}
      [] command = ":pgn-to-score" -> {":score "}
      [] command = ":pgn-to-mainline" -> {":san "}

Malformed == {"bad_input", "bad_command", "bad_options", "bad_payload_type"}

\* the step read a line (not the end of input)
ReadsLine == pc = "listen" /\ nRead' = nRead + 1

CallsOf(op) == SelectSeq(calls, LAMBDA c : c.op = op)

----------------------------------------------------------------------------
(* C1 *)

\* C1: a well-formed request whose engine calls all succeed is answered by
\* exactly one line on standard output, and the line starts with the prefix
\* of its command.
C1_OneReplyWithPrefix ==
    (LineRead /\ RequestOf(input_str).verdict = "ok" /\ outcome # "raised")
        => /\ Len(RepliesTo(nRead)) = 1
           /\ RepliesTo(nRead)[1].text.prefix \in ReplyPrefixes(RequestOf(input_str).command)

----------------------------------------------------------------------------
(* C2 *)

\* C2: a line that does not match the grammar, names an unknown command, has
\* options that do not parse or a payload type other than :pgn leaves standard
\* output untouched, puts a diagnostic on the error stream and leaves the
\* server reading.
C2_MalformedWritesNothing ==
    (LineRead /\ RequestOf(input_str).verdict \in Malformed)
        => /\ RepliesTo(nRead) = <<>>
           /\ DiagnosticsOf(nRead) # <<>>
           /\ pc = "listen"

----------------------------------------------------------------------------
(* C3 *)

\* C3: a :pgn-to-board request whose board_format is neither svg nor text gets
\* a diagnostic naming the value and no line on standard output, and the
\* server goes on reading.
C3_BadFormatNoReply ==
    (/\ LineRead
     /\ RequestOf(input_str).verdict = "ok"
     /\ RequestOf(input_str).command = ":pgn-to-board"
     /\ RequestOf(input_str).args.board_format \notin {"svg", "text"})
        => /\ \E i \in 1..Len(DiagnosticsOf(nRead)) :
                /\ DiagnosticsOf(nRead)[i].kind = "bad_board_format"
                /\ DiagnosticsOf(nRead)[i].text = RequestOf(input_str).args.board_format
           /\ RepliesTo(nRead) = <<>>
           /\ pc = "listen"

----------------------------------------------------------------------------
(* C4 *)

\* C4: once the process has terminated, quit() has been called on every handle
\* that was ever spawned, the replaced ones included.
C4_EveryHandleQuit ==
    pc = "terminated" => \A h \in 1..Len(quits) : quits[h] >= 1

----------------------------------------------------------------------------
(* C5 *)

\* the step in which readline returned the empty string
EofStep == pc = "listen" /\ outcome' = "eof"

\* C5: at the end of input the server calls quit() on every handle of the
\* pool, leaves the loop without a reply or a diagnostic, reads nothing more
\* and writes no reply afterwards, and the process terminates.
C5_EndOfInputShutsDown ==
    /\ [][EofStep => /\ pc' = "exiting"
                     /\ \A i \in 1..Len(ENGINES) :
                           quits'[ENGINES[i].handle] = quits[ENGINES[i].handle] + 1
                     /\ ENGINES' = ENGINES
                     /\ stdout' = stdout /\ stderr' = stderr /\ nRead' = nRead]_vars
    /\ [][pc # "listen" => /\ pc' # "listen"
                           /\ nRead' = nRead /\ input_str' = input_str
                           /\ stdout' = stdout]_vars
    /\ (outcome = "eof" ~> pc = "terminated")

C5_Witness ==
    pc = "terminated" /\ outcome = "eof" /\ nRead >= 1 /\ Len(ENGINES) >= 1

----------------------------------------------------------------------------
(* C6 *)

\* the line read by the step is a :pgn-to-score request that passes the checks
\* and names this engine path
ScoreRequestFor(line, path) ==
    /\ line \notin {EndOfInput, Newline}
    /\ RequestOf(line).verdict = "ok"
    /\ RequestOf(line).command = ":pgn-to-score"
    /\ RequestOf(line).args.engine = path

\* C6: when a :pgn-to-score request names a path whose handle in the pool is
\* live, the probe is answered, nothing is spawned, the pool keeps the handle
\* and the analysis runs on that handle.
C6_LiveHandleReused ==
    [][\A i \in 1..Len(ENGINES) :
          (ReadsLine /\ ScoreRequestFor(input_str', ENGINES[i].path) /\ alive[ENGINES[i].handle])
              => /\ Len(calls') = 2
                 /\ calls'[1] = Call("ping", ENGINES[i].handle, TRUE)
                 /\ calls'[2].op = "analyse" /\ calls'[2].h = ENGINES[i].handle
                 /\ ENGINES' = ENGINES
                 /\ Len(alive') = Len(alive)]_vars

C6_Witness ==
    /\ nRead = 2 /\ outcome = "replied"
    /\ Len(calls) = 2 /\ calls[1].op = "ping" /\ calls[1].ok /\ calls[2].op = "analyse"
    /\ Len(alive) = 1

----------------------------------------------------------------------------
(* C7 *)

\* the last request is a :pgn-to-score request that found handle h in the pool,
\* whose probe of h failed and was followed by the successful spawn of h2
Respawned(h, h2) ==
    /\ LineRead
    /\ RequestOf(input_str).verdict = "ok"
    /\ RequestOf(input_str).command = ":pgn-to-score"
    /\ Len(calls) >= 2
    /\ calls[1] = Call("ping", h, FALSE)
    /\ calls[2] = Call("popen_uci", h2, TRUE)

ScoreReply(rq) ==
    Reply(":score ", build_board(rq.payload).board, "", 0, rq.args.engine, rq.args.depth)

----------------------------------------------------------------------------
(* C8 *)

\* C8: the empty line is answered by nothing on standard output and nothing on
\* the error stream, changes neither the pool nor the engines, and the server
\* reads on.
C8_EmptyLineIgnored ==
    [][(ReadsLine /\ input_str' = Newline)
          => /\ stdout' = stdout /\ stderr' = stderr
             /\ ENGINES' = ENGINES /\ alive' = alive /\ quits' = quits
             /\ calls' = <<>>
             /\ pc' = "listen"]_vars

C8_Witness ==
    /\ input_str = Newline /\ outcome = "empty" /\ nRead = 2
    /\ Len(ENGINES) >= 1 /\ stdout # <<>>

----------------------------------------------------------------------------
(* C9 *)

\* C9: a line that has text before the command token does not match the
\* grammar: it is dropped with the diagnostic of a bad line and gets no reply.
C9_CommandMustLead ==
    (LineRead /\ input_str[1] # ":")
        => /\ outcome = "bad_input"
           /\ RepliesTo(nRead) = <<>>
           /\ \E i \in 1..Len(DiagnosticsOf(nRead)) : DiagnosticsOf(nRead)[i].kind = "bad_input"

----------------------------------------------------------------------------
(* C10 *)

\* C10: standard output only grows at its end, and what a step adds to it
\* belongs to the request that step read: the replies stand in the order of
\* their requests, each written before the next line is read.
C10_RepliesInOrder ==
    [][/\ Len(stdout') >= Len(stdout)
       /\ SubSeq(stdout', 1, Len(stdout)) = stdout
       /\ \A k \in (Len(stdout) + 1)..Len(stdout') : ReadsLine /\ stdout'[k].req = nRead']_vars

C10_Witness ==
    /\ Len(stdout) = 2
    /\ stdout[1].req = 1 /\ stdout[2].req = 2
    /\ stdout[1].text.prefix # stdout[2].text.prefix

----------------------------------------------------------------------------
(* C11 *)

\* the line is a request for :pgn-to-fen, :pgn-to-board or :pgn-to-mainline that
\* passes the checks of listen
PureRequest(line) ==
    /\ line \notin {EndOfInput, Newline}
    /\ RequestOf(line).verdict = "ok"
    /\ RequestOf(line).command \in {":pgn-to-fen", ":pgn-to-board", ":pgn-to-mainline"}

\* what the line alone says the answer is: the board of its payload, and of its
\* options those its command reads, each at its default when the line has none
AnswerOf(rq) ==
    LET b == build_board(rq.payload) IN
    CASE rq.command = ":pgn-to-fen" -> Reply(":fen ", b.board, "", 0, "", 0)
      [] rq.command = ":pgn-to-mainline" -> Reply(":san ", b.board, "", 0, "", 0)
      [] rq.command = ":pgn-to-board" /\ rq.args.board_format = "svg" ->
            Reply(":board-svg ", b.board, b.last_move, rq.args.pixels, "", 0)
      [] rq.command = ":pgn-to-board" /\ rq.args.board_format = "text" ->
            Reply(":board-text ", b.board, "", 0, "", 0)
      [] OTHER -> None

\* C11: whatever was read before, what is written to standard output for a
\* :pgn-to-fen, :pgn-to-board or :pgn-to-mainline request that passes the checks
\* is the one entry its line alone determines; the same line read again gets
\* the same text; and a line without options is answered from the defaults
\* 400 and svg, whatever options the lines before it had.
C11_ReplyDependsOnLineOnly ==
    [][(ReadsLine /\ PureRequest(input_str'))
          => /\ stdout' = Append(stdout, [req |-> nRead', text |-> AnswerOf(RequestOf(input_str'))])
             /\ (input_str = input_str' /\ nRead >= 1)
                   => /\ Len(RepliesTo(nRead)) = 1
                      /\ Last(stdout').text = RepliesTo(nRead)[1].text
             /\ (RequestOf(input_str').option_string = "" /\
                 RequestOf(input_str').command = ":pgn-to-board")
                   => /\ Last(stdout').text.prefix = ":board-svg "
                      /\ Last(stdout').text.size = DefaultPixels]_vars

\* a :pgn-to-board request with -pixels 200 was answered, and the request
\* without options read after it is answered at the default size
C11_Witness ==
    /\ Len(stdout) = 2
    /\ stdout[1].req = 1 /\ stdout[1].text.prefix = ":board-svg " /\ stdout[1].text.size = 200
    /\ stdout[2].req = 2 /\ stdout[2].text.prefix = ":board-svg "
    /\ stdout[2].text.size = DefaultPixels
    /\ RequestOf(input_str).option_string = ""

----------------------------------------------------------------------------
(* C12 *)

\* the calls of a request whose probe was answered and whose analysis raised
AnalysisFailed(cs) ==
    /\ Len(cs) >= 2
    /\ cs[Len(cs) - 1].op = "ping" /\ cs[Len(cs) - 1].ok
    /\ cs[Len(cs)].op = "analyse" /\ ~cs[Len(cs)].ok

\* C12: when the probe is answered and the analysis raises, the analysis is
\* called once and nothing is spawned after it, nothing is written to standard
\* output, the loop is left and no line is read after that; the exit hook then
\* calls quit() on every handle of the pool, and the process terminates.
C12_AnalysisFailureIsFatal ==
    /\ [][(ReadsLine /\ AnalysisFailed(calls'))
             => /\ Len(SelectSeq(calls', LAMBDA c : c.op = "analyse")) = 1
                /\ stdout' = stdout
                /\ outcome' = "raised"
                /\ pc' = "exiting"]_vars
    /\ [][(pc = "exiting" /\ outcome = "raised")
             => /\ pc' = "terminated"
                /\ nRead' = nRead /\ input_str' = input_str /\ stdout' = stdout
                /\ ENGINES' = ENGINES
                /\ Len(calls') = Len(ENGINES)
                /\ \A i \in 1..Len(ENGINES) :
                      /\ calls'[i].op = "quit" /\ calls'[i].h = ENGINES[i].handle
                      /\ quits'[ENGINES[i].handle] = quits[ENGINES[i].handle] + 1]_vars
    /\ [][pc = "terminated" => UNCHANGED vars]_vars
    /\ (outcome = "raised" ~> pc = "terminated")

\* the second request found its engine live, its analysis raised, and the exit
\* hook has quit the handle
C12_Witness ==
    /\ pc = "terminated" /\ outcome = "raised"
    /\ nRead = 2 /\ Len(stdout) = 1 /\ stdout[1].req = 1
    /\ Len(ENGINES) = 1
    /\ calls = <<Call("quit", ENGINES[1].handle, TRUE)>>
    /\ quits[ENGINES[1].handle] = 1

----------------------------------------------------------------------------
(* C13 *)

\* C13: when the process has terminated after the end of input, every handle
\* of the pool has had quit() called on it exactly once.
C13_QuitExactlyOnce ==
    (pc = "terminated" /\ outcome = "eof")
        => \A i \in 1..Len(ENGINES) : quits[ENGINES[i].handle] = 1

----------------------------------------------------------------------------
(* C14 *)

\* C14: whenever instantiate_engine returns, so that the analysis is called,
\* the handle it returned answers at that moment and is the handle the pool
\* holds under the path of the request.
C14_ReturnedHandleLive ==
    [][\A k \in 1..Len(calls') :
          (ReadsLine /\ calls'[k].op = "analyse")
              => /\ alive'[calls'[k].h]
                 /\ ScoreRequestFor(input_str', RequestOf(input_str').args.engine)
                 /\ Get(ENGINES', RequestOf(input_str').args.engine) = calls'[k].h]_vars

----------------------------------------------------------------------------
(* C15 *)

\* the step runs cleanup: the end of input in the loop, or the exit hook
CleanupStep == EofStep \/ pc = "exiting"

\* C15: a step that runs cleanup calls quit() once on every handle of the pool,
\* in the order of the pool, whether or not the calls before it failed, and ends
\* as it would have without the failures: nothing is raised.  A cleanup run
\* after a cleanup changes neither the pool, nor the engines, nor what was
\* written, nor where the server stands; it only repeats the quit() calls.
C15_CleanupBestEffortIdempotent ==
    /\ [][CleanupStep
             => /\ Len(calls') = Len(ENGINES)
                /\ \A i \in 1..Len(ENGINES) :
                      /\ calls'[i].op = "quit" /\ calls'[i].h = ENGINES[i].handle
                      /\ calls'[i].ok = alive[ENGINES[i].handle]
                /\ ENGINES' = ENGINES
                /\ outcome' = (IF EofStep THEN "eof" ELSE outcome)
                /\ pc' = (IF EofStep THEN "exiting" ELSE "terminated")]_vars
    /\ [][(pc = "exiting" /\ outcome = "eof")
             => /\ ENGINES' = ENGINES /\ alive' = alive
                /\ stdout' = stdout /\ stderr' = stderr
                /\ nRead' = nRead /\ input_str' = input_str /\ outcome' = outcome]_vars
    /\ [](LET once == cleanup(State)
              twice == cleanup(once)
          IN  [twice EXCEPT !.quits = once.quits, !.calls = once.calls] = once)

\* two engines in the pool, quit() called twice on each, and both calls of the
\* second cleanup failed
C15_Witness ==
    /\ pc = "terminated" /\ outcome = "eof"
    /\ Len(ENGINES) = 2
    /\ \A i \in 1..2 : quits[ENGINES[i].handle] = 2
    /\ Len(calls) = 2 /\ ~calls[1].ok /\ ~calls[2].ok /\ calls[1].h # calls[2].h

----------------------------------------------------------------------------
(* C16 *)

Keys(E) == {E[i].path : i \in 1..Len(E)}

\* C16: no step takes a path out of the pool or moves its entry, a handle that
\* replaces another takes its place under the same path; no path has two
\* entries; and a path enters the pool only in the step that reads a
\* :pgn-to-score request which passes the checks and names that path.
C16_PoolGrowsOnePerPath ==
    /\ [][/\ Len(ENGINES') >= Len(ENGINES)
           /\ \A i \in 1..Len(ENGINES) : ENGINES'[i].path = ENGINES[i].path
           /\ \A p \in Keys(ENGINES') \ Keys(ENGINES) :
                 ReadsLine /\ ScoreRequestFor(input_str', p)]_vars
    /\ [](\A i, j \in 1..Len(ENGINES) : ENGINES[i].path = ENGINES[j].path => i = j)

\* two paths in the pool, the first of them with a replacement for its handle
C16_Witness ==
    /\ Len(ENGINES) = 2
    /\ ENGINES[1].path # ENGINES[2].path
    /\ Len(alive) = 3 /\ ENGINES[1].handle = 2 /\ ENGINES[2].handle = 3

----------------------------------------------------------------------------
(* C17 *)

\* the line is a :pgn-to-score request that passes the checks of listen
PassingScoreRequest(line) ==
    /\ line \notin {EndOfInput, Newline}
    /\ RequestOf(line).verdict = "ok"
    /\ RequestOf(line).command = ":pgn-to-score"

\* C17: a step that reads a line which is not a :pgn-to-score request passing
\* every check, be it the empty line, a line dropped by one of the checks or a
\* :pgn-to-fen, :pgn-to-board or :pgn-to-mainline request with or without an
\* -engine option, leaves the pool and the engines as they are and calls
\* nothing on an engine; and no step but the reading of a passing
\* :pgn-to-score request changes the pool or spawns.
C17_OnlyScoreTouchesPool ==
    /\ [][(ReadsLine /\ ~PassingScoreRequest(input_str'))
             => /\ ENGINES' = ENGINES /\ alive' = alive /\ quits' = quits
                /\ calls' = <<>>]_vars
    /\ [][(ENGINES' # ENGINES \/ Len(alive') # Len(alive) \/
            (calls' # calls /\ \E k \in 1..Len(calls') : calls'[k].op = "popen_uci"))
             => ReadsLine /\ PassingScoreRequest(input_str')]_vars

\* a :pgn-to-fen request with an -engine option was answered after a
\* :pgn-to-score request, and the pool holds what the :pgn-to-score request left
C17_Witness ==
    /\ input_str = Request(Fen, Engine2, OneMove)
    /\ outcome = "replied" /\ nRead = 2
    /\ ENGINES = <<[path |-> "stockfish", handle |-> 1]>>
    /\ Len(alive) = 1 /\ calls = <<>>

----------------------------------------------------------------------------
(* C18 *)

\* the moves of the main line of the game the line carries
MovesOf(line) == mainline_moves(Unescape(RequestOf(line).payload))

\* C18: whatever was read before, the reply to a request that passes the
\* checks shows the board reached from the initial position by the moves of
\* the main line of its payload, all of them and in their order, and the
\* reply of :pgn-to-board in svg shows as last move the last of these moves,
\* or False exactly when the main line has no move.
C18_BoardIsMainLine ==
    [][(/\ ReadsLine
        /\ input_str' # Newline
        /\ RequestOf(input_str').verdict = "ok"
        /\ outcome' = "replied"
        /\ Last(stdout').text # None)
          => LET reply == Last(stdout').text
                 moves == MovesOf(input_str')
             IN  /\ Len(stdout') = Len(stdout) + 1
                 /\ Len(reply.board) = Len(moves)
                 /\ \A k \in 1..Len(moves) : reply.board[k] = moves[k]
                 /\ reply.prefix = ":board-svg "
                       => /\ reply.last_move = "False" <=> moves = <<>>
                          /\ moves # <<>> => reply.last_move = moves[Len(moves)]]_vars

\* a game of two moves was drawn with its second move as the last, and the
\* game without moves read after it is drawn from the initial position with
\* no last move
C18_Witness ==
    /\ Len(stdout) = 2
    /\ stdout[1].req = 1 /\ stdout[1].text.prefix = ":board-svg "
    /\ stdout[1].text.board = <<"e4", "e5">> /\ stdout[1].text.last_move = "e5"
    /\ stdout[2].req = 2 /\ stdout[2].text.prefix = ":board-svg "
    /\ stdout[2].text.board = <<>> /\ stdout[2].text.last_move = "False"

----------------------------------------------------------------------------
(* C19 *)

\* each of the four checks made of the line on its own, whatever the others say
CheckOf(line) ==
    LET m == re_search(line) IN
    [grammar |-> m.matched,
     command |-> m.matched /\ Flatten(m.group1) \in CommandNames,
     options |-> m.matched /\ request_options(m.group2).status = "ok",
     type    |-> m.matched /\ Flatten(m.group3) = ":pgn"]

Checks == {[line |-> l, check |-> CheckOf(l)] : l \in Lines}

ChecksOf(line) == (CHOOSE c \in Checks : c.line = line).check

\* the diagnostic of the first check that fails, none when all four pass
FirstFailure(ck) ==
    IF ~ck.grammar THEN "bad_input"
    ELSE IF ~ck.command THEN "bad_command"
    ELSE IF ~ck.options THEN "bad_options"
    ELSE IF ~ck.type THEN "bad_payload_type"
    ELSE "none"

\* the kinds of the entries the step adds to the error stream
KindsAdded == [k \in 1..(Len(stderr') - Len(stderr)) |-> stderr'[Len(stderr) + k].kind]

\* C19: of a line that fails one or more of the four checks, the step writes
\* exactly one of the four diagnostics of listen, the one of the first check
\* that fails in the order grammar, command, options, payload type, and a line
\* that passes the four gets none of them; for a line whose command is unknown
\* the options are not parsed, so that the option parser writes nothing.
C19_FirstFailureOnly ==
    [][(ReadsLine /\ input_str' # Newline)
          => LET first == FirstFailure(ChecksOf(input_str'))
                 four  == SelectSeq(KindsAdded, LAMBDA k : k \in Malformed)
             IN  /\ four = IF first = "none" THEN <<>> ELSE <<first>>
                 /\ first # "none" => outcome' = first /\ pc' = "listen"
                 /\ first \in {"bad_input", "bad_command"}
                       => KindsAdded = <<first>> /\ stdout' = stdout
                 /\ first = "bad_payload_type" => KindsAdded = <<first>> /\ stdout' = stdout]_vars

\* a known command with options that do not parse and a payload type that is
\* not :pgn: the option parser wrote its usage, listen wrote the diagnostic of
\* the options and none for the payload type
C19_Witness ==
    /\ input_str = Line(<<>>, Fen, Zap, Separator, <<":", "fen">>, OneMove, Newline)
    /\ nRead = 2
    /\ Len(DiagnosticsOf(2)) = 2
    /\ DiagnosticsOf(2)[1].kind = "argparse_usage"
    /\ DiagnosticsOf(2)[2].kind = "bad_options"

----------------------------------------------------------------------------
(* C20 *)

\* the first spawn of the request failed: nothing else was called
FirstSpawnFailed(cs) == cs = <<Call("popen_uci", 0, FALSE)>>

\* the probe of the request failed and the spawn of the replacement failed
ReplacementFailed(cs) ==
    /\ Len(cs) >= 2
    /\ cs[Len(cs) - 1].op = "ping" /\ ~cs[Len(cs) - 1].ok
    /\ cs[Len(cs)] = Call("popen_uci", 0, FALSE)

Count(cs, op) == Len(SelectSeq(cs, LAMBDA c : c.op = op))

\* C20 as stated: every call of instantiate_engine spawns at most twice and
\* probes exactly once, and when the spawn of the replacement fails the
\* request gets no reply.
C20_ProbesExactlyOnce ==
    [][(ReadsLine /\ PassingScoreRequest(input_str'))
          => /\ Count(calls', "popen_uci") <= 2
             /\ Count(calls', "ping") = 1
             /\ ReplacementFailed(calls') => stdout' = stdout]_vars

\* C20 as amended: a call of instantiate_engine spawns once when the path has
\* no entry and once more when the probe fails, so at most twice; it probes
\* once, unless the first spawn fails, and then it probes nothing and raises;
\* when the spawn of the replacement fails the pool keeps the handle it had,
\* no analysis is called, nothing is written to standard output and the loop
\* is left.
C20_SpawnsAndProbes ==
    [][(ReadsLine /\ PassingScoreRequest(input_str'))
          => LET path  == RequestOf(input_str').args.engine
                 fresh == ~Has(ENGINES, path)
                 failed == Len(SelectSeq(calls', LAMBDA c : c.op = "ping" /\ ~c.ok))
             IN  /\ Count(calls', "popen_uci") = (IF fresh THEN 1 ELSE 0) + failed
                 /\ Count(calls', "popen_uci") <= 2
                 /\ Count(calls', "ping") = (IF FirstSpawnFailed(calls') THEN 0 ELSE 1)
                 /\ FirstSpawnFailed(calls')
                       => fresh /\ outcome' = "raised" /\ pc' = "exiting" /\ stdout' = stdout
                 /\ ReplacementFailed(calls')
                       => /\ outcome' = "raised" /\ pc' = "exiting"
                          /\ stdout' = stdout
                          /\ Count(calls', "analyse") = 0
                          /\ ~fresh => ENGINES' = ENGINES]_vars

\* the second request found a handle that did not answer, the spawn of the
\* replacement failed, and the one reply written is that of the first request
C20_Witness ==
    /\ nRead = 2 /\ outcome = "raised" /\ pc = "exiting"
    /\ calls = <<Call("ping", 1, FALSE), Call("popen_uci", 0, FALSE)>>
    /\ Len(stdout) = 1 /\ stdout[1].req = 1 /\ stdout[1].text.prefix = ":score "
    /\ ENGINES = <<[path |-> "stockfish", handle |-> 1]>>

====
